---- MODULE Spec2Model ----
(***************************************************************************)
(* Index-management reconciliation of the elasticsearch operator           *)
(* (internal/indexmanagement/reconcile.go): the create-or-update converger *)
(* for the rollover/delete cron jobs and the scripts configmap, and the    *)
(* orphan cleanup, against a versioned object store that another actor     *)
(* may write at any time.                                                  *)
(***************************************************************************)
EXTENDS Naturals, Sequences, FiniteSets, TLC

VARIABLES cron, cm, rv, pc, op, desired, current, attempt, calls, ret,
          todo, logged, prev, nOps, nOther, nTouch, peer, pass

vars == <<cron, cm, rv, pc, op, desired, current, attempt, calls, ret,
          todo, logged, prev, nOps, nOther, nTouch, peer, pass>>

(***************************************************************************)
(* Bounds of the model                                                     *)
(***************************************************************************)
\* entry-point invocations of the reconciler in one behaviour
MaxOps == 2
\* writes of the other actor (another controller, a human) in one behaviour
MaxOtherWrites == 1
\* length of the mapping list handed to RemoveCronJobsForMappings
MaxMappings == 2

(***************************************************************************)
(* Program constants                                                       *)
(***************************************************************************)
\* retry.DefaultRetry.Steps: attempts of retry.RetryOnConflict
Steps == 5

indexManagementConfigmap == "indexmanagement-scripts"

imLabels == {<<"provider", "openshift">>,
             <<"component", "indexManagement">>,
             <<"logging-infra", "indexManagement">>}

\* scriptMap, the fixed script bundle
scriptMap == {<<"delete", "d1">>, <<"rollover", "r1">>}

NoObj == [kind |-> "absent"]

\* the cluster (apis.Elasticsearch) of the reconciliation
cluster == [name |-> "A", namespace |-> "ns", image |-> "es:6",
            nodeSelector |-> {}, tolerations |-> <<>>]

MappingNames == {"X", "Y"}

\* the policies of the policy map, by reference name
PolicyMap == [hot   |-> [Hot |-> TRUE,  Delete |-> FALSE],
              del   |-> [Hot |-> FALSE, Delete |-> TRUE],
              both  |-> [Hot |-> TRUE,  Delete |-> TRUE],
              empty |-> [Hot |-> FALSE, Delete |-> FALSE]]

\* policies[ref] of a Go map: the zero policy when the key is missing
PolicyOf(policies, ref) ==
  IF ref \in DOMAIN policies THEN policies[ref]
  ELSE [Hot |-> FALSE, Delete |-> FALSE]

PolicyRefs == {"hot", "del", "both", "empty", "missing"}

PollIntervals == {"1m", "15m", "bad"}

\* crontabScheduleFor: the cron expression of a poll interval, or an error
crontabScheduleFor(pollInterval) ==
  CASE pollInterval = "1m"  -> [err |-> "nil", schedule |-> "*/1 * * * *"]
    [] pollInterval = "15m" -> [err |-> "nil", schedule |-> "*/15 * * * *"]
    [] OTHER -> [err |-> "InvalidSchedule", schedule |-> ""]

\* fmt.Sprintf("%s-rollover-%s", cluster.Name, mapping.Name)
RolloverName(clusterName, mappingName) == clusterName \o "-rollover-" \o mappingName

\* fmt.Sprintf("%s-delete-%s", cluster.Name, mapping.Name)
DeleteName(clusterName, mappingName) == clusterName \o "-delete-" \o mappingName

\* the cron job names of the model's namespace, in the order of sets.String.List()
NameOrder == <<"A-delete-X", "A-delete-Y", "A-rollover-X", "A-rollover-Y">>

CronNames == {NameOrder[i] : i \in 1..Len(NameOrder)}

\* utils.EnsureLinuxNodeSelector
EnsureLinuxNodeSelector(nodeSelector) ==
  nodeSelector \cup {<<"kubernetes.io/os", "linux">>}

(***************************************************************************)
(* Desired-state builder                                                   *)
(***************************************************************************)
\* newCronJob with the container customised for kind "rollover" or "delete"
newCronJob(clusterName, image, name, schedule, nodeSelector, tolerations, envvars, kind) ==
  [kind   |-> "CronJob",
   name   |-> name,
   labels |-> imLabels,
   owner  |-> "",
   ver    |-> 0,
   spec   |-> [schedule          |-> schedule,
               suspend           |-> "nil",
               concurrencyPolicy |-> "Forbid",
               nodeSelector      |-> EnsureLinuxNodeSelector(nodeSelector),
               tolerations       |-> tolerations,
               containers        |-> << [name     |-> "indexmanagement",
                                         image    |-> image,
                                         command  |-> <<"bash">>,
                                         args     |-> <<"-c", "/tmp/scripts/" \o kind>>,
                                         requests |-> {<<"memory", "32Mi">>, <<"cpu", "100m">>},
                                         env      |-> <<<<"ES_SERVICE", "https://" \o clusterName \o ":9200">>>>
                                                      \o envvars] >>]]

\* cluster.AddOwnerRefTo(desired)
AddOwnerRefTo(obj) == [obj EXCEPT !.owner = cluster.name]

\* the desired object of ReconcileRolloverCronjob
RolloverDesired(mappingName, schedule) ==
  AddOwnerRefTo(newCronJob(cluster.name, cluster.image,
                           RolloverName(cluster.name, mappingName), schedule,
                           cluster.nodeSelector, cluster.tolerations,
                           <<<<"PAYLOAD", "conditions">>, <<"POLICY_MAPPING", mappingName>>>>,
                           "rollover"))

MinAges == {"7d", "bad"}

\* calculateMillisForTimeUnit: the milliseconds of a time-unit string, or an error
calculateMillisForTimeUnit(minAge) ==
  IF minAge = "7d" THEN [err |-> "nil", millis |-> 604800000]
  ELSE [err |-> "InvalidDuration", millis |-> 0]

\* the desired object of ReconcileCurationCronjob
CurationDesired(mappingName, schedule, minAgeMillis) ==
  AddOwnerRefTo(newCronJob(cluster.name, cluster.image,
                           DeleteName(cluster.name, mappingName), schedule,
                           cluster.nodeSelector, cluster.tolerations,
                           <<<<"POLICY_MAPPING", mappingName>>,
                             <<"MIN_AGE", ToString(minAgeMillis)>>>>,
                           "delete"))

\* k8s.NewConfigMap(indexManagementConfigmap, ns, imLabels, scriptMap) with owner
ConfigmapDesired ==
  [kind |-> "ConfigMap", name |-> indexManagementConfigmap, labels |-> imLabels,
   owner |-> cluster.name, ver |-> 0, data |-> scriptMap]

(***************************************************************************)
(* Sameness predicate                                                      *)
(***************************************************************************)
\* comparators.AreStringMapsSame
AreStringMapsSame(lhs, rhs) == lhs = rhs

\* comparators.AreTolerationsSame: equal as sets
AreTolerationsSame(lhs, rhs) ==
  {lhs[i] : i \in 1..Len(lhs)} = {rhs[i] : i \in 1..Len(rhs)}

\* comparators.AreResourceRequementsSame
AreResourceRequementsSame(lhs, rhs) == lhs = rhs

\* comparators.EnvValueEqual
EnvValueEqual(lhs, rhs) ==
  {lhs[i] : i \in 1..Len(lhs)} = {rhs[i] : i \in 1..Len(rhs)}

\* a slip: the arguments of the container left out of the comparison
ContainerSame_NoArgs(container, other) ==
  /\ container.name = other.name
  /\ container.image = other.image
  /\ container.command = other.command
  /\ AreResourceRequementsSame(container.requests, other.requests)
  /\ EnvValueEqual(container.env, other.env)

\* one pass of the body of the container loop of areCronJobsSame
ContainerSame(container, other) ==
  /\ container.name = other.name
  /\ container.image = other.image
  /\ container.command = other.command
  /\ container.args = other.args
  /\ AreResourceRequementsSame(container.requests, other.requests)
  /\ EnvValueEqual(container.env, other.env)

\* the container loop of areCronJobsSame, from index i: rhs is indexed by the
\* index of lhs, so an index past the end of rhs is a run-time panic
RECURSIVE ContainersLoop(_, _, _)
ContainersLoop(lc, rc, i) ==
  IF i > Len(lc) THEN "same"
  ELSE IF i > Len(rc) THEN "panic"
  ELSE IF ~ContainerSame(lc[i], rc[i]) THEN "different"
  ELSE ContainersLoop(lc, rc, i + 1)

\* the first test of areCronJobsSame: the length of lhs against itself
ContainerCountDiffers(lhs, rhs) ==
  Len(lhs.spec.containers) # Len(lhs.spec.containers)

\* a slip: the two objects compared whole, resource version and all
areCronJobsSame_DeepEqual(lhs, rhs) ==
  [result |-> IF lhs = rhs THEN "same" ELSE "different", lhs |-> lhs]

\* a slip: a stored cron job never taken for the desired one
areCronJobsSame_AlwaysDifferent(lhs, rhs) ==
  [result |-> "different", lhs |-> lhs]

\* areCronJobsSame(lhs, rhs): the result, and lhs as the predicate leaves it
\* (a different schedule is copied into lhs before "different" is returned)
areCronJobsSame(lhs, rhs) ==
  IF ContainerCountDiffers(lhs, rhs)
    THEN [result |-> "different", lhs |-> lhs]
  ELSE IF ~AreStringMapsSame(lhs.spec.nodeSelector, rhs.spec.nodeSelector)
    THEN [result |-> "different", lhs |-> lhs]
  ELSE IF ~AreTolerationsSame(lhs.spec.tolerations, rhs.spec.tolerations)
    THEN [result |-> "different", lhs |-> lhs]
  ELSE IF lhs.spec.schedule # rhs.spec.schedule
    THEN [result |-> "different",
          lhs |-> [lhs EXCEPT !.spec.schedule = rhs.spec.schedule]]
  ELSE IF lhs.spec.suspend # "nil" /\ rhs.spec.suspend # "nil"
          /\ lhs.spec.suspend # rhs.spec.suspend
    THEN [result |-> "different", lhs |-> lhs]
  ELSE [result |-> ContainersLoop(lhs.spec.containers, rhs.spec.containers, 1),
        lhs |-> lhs]

(***************************************************************************)
(* The remote object store: optimistic concurrency on a resource version   *)
(***************************************************************************)
\* what a store call can fail with whatever the store holds (permission,
\* network, cancellation): "nil" is no such failure
Faults == {"nil", "Forbidden"}

IsAlreadyExists(err) == err = "AlreadyExists"
IsConflict(err) == err = "Conflict"
IsNotFound(err) == err = "NotFound"

\* the answer of Create(obj) for the stored object (NoObj when absent)
CreateErr(stored, fault) ==
  IF fault # "nil" THEN fault
  ELSE IF stored # NoObj THEN "AlreadyExists" ELSE "nil"

\* the answer of Get(name)
GetErr(stored, fault) ==
  IF fault # "nil" THEN fault
  ELSE IF stored = NoObj THEN "NotFound" ELSE "nil"

\* the answer of Update(obj): the version of obj must be the stored one
UpdateErr(stored, obj, fault) ==
  IF fault # "nil" THEN fault
  ELSE IF stored = NoObj THEN "NotFound"
  ELSE IF stored.ver # obj.ver THEN "Conflict" ELSE "nil"

\* the answer of Delete(name)
DeleteErr(stored, fault) ==
  IF fault # "nil" THEN fault
  ELSE IF stored = NoObj THEN "NotFound" ELSE "nil"

\* List(InNamespace, MatchingLabels(labels)): the names of the matching cron jobs
ListNames(store, labels) ==
  {n \in CronNames : store[n] # NoObj /\ labels \subseteq store[n].labels}

Call(verb, name, err) == [verb |-> verb, name |-> name, err |-> err]

(***************************************************************************)
(* Results                                                                 *)
(***************************************************************************)
NoRet == [status |-> "none"]
Ok == [status |-> "ok"]
Panic == [status |-> "panic"]

\* kverrors.Wrap(err, msg, keysAndValues...): nil stays nil
Wrap(err, msg, ctx) ==
  IF err = "nil" THEN Ok
  ELSE [status |-> "error", cause |-> err, msg |-> msg, ctx |-> ctx]

(***************************************************************************)
(* reconcileCronJob                                                        *)
(***************************************************************************)
CronFns == {"ReconcileRolloverCronjob", "ReconcileCurationCronjob"}

\* a slip: every create failure taken for already-exists
CreateNext_NoExistsCheck(err) ==
  IF err = "nil" THEN "ok" ELSE "update_path"

\* what follows the Create of reconcileCronJob / ReconcileCurationConfigmap
CreateNext(err) ==
  IF err = "nil" THEN "ok"
  ELSE IF ~IsAlreadyExists(err) THEN "fail"
  ELSE "update_path"

\* a slip: every error retried
RetryNext_AnyError(err, n) ==
  IF err = "nil" THEN "ok"
  ELSE IF n < Steps THEN "again"
  ELSE "fail"

\* a slip: one attempt too many
RetryNext_OffByOne(err, n) ==
  IF err = "nil" THEN "ok"
  ELSE IF err = "Conflict" /\ n <= Steps THEN "again"
  ELSE "fail"

\* retry.RetryOnConflict(retry.DefaultRetry, fn) after fn returned err in the
\* given attempt: only a conflict is retried, and at most Steps attempts run
RetryNext(err, n) ==
  IF err = "nil" THEN "ok"
  ELSE IF IsConflict(err) /\ n < Steps THEN "again"
  ELSE "fail"

\* a slip: the whole desired object written over the fetched one
UpdatedCronJob_WithMeta(cur, des) == [des EXCEPT !.ver = cur.ver]

\* a slip: only the schedule copied
UpdatedCronJob_ScheduleOnly(cur, des) ==
  [cur EXCEPT !.spec.schedule = des.spec.schedule]

\* a slip: the object fetched by an earlier attempt kept for the next one
UpdatedCronJob_Cached(cur, des) ==
  IF current # NoObj THEN [current EXCEPT !.spec = des.spec]
  ELSE [cur EXCEPT !.spec = des.spec]

\* a slip: the labels and the owner of the desired object copied as well
UpdatedCronJob_WithOwner(cur, des) ==
  [cur EXCEPT !.spec = des.spec, !.labels = des.labels, !.owner = des.owner]

\* current.Spec = desired.Spec
UpdatedCronJob(cur, des) == [cur EXCEPT !.spec = des.spec]

\* the error context of the create failure of reconcileCronJob
CronCreateCtx ==
  {<<"namespace", cluster.namespace>>, <<"cluster", cluster.name>>}

\* the error context of the update failure of reconcileCronJob
CronUpdateCtx(des) ==
  {<<"namespace", cluster.namespace>>, <<"cluster", des.name>>}

\* the closure handed to RetryOnConflict returned err: leave or go round again
CronAfterAttempt(err) ==
  LET nxt == RetryNext(err, attempt) IN
  IF nxt = "again"
    THEN /\ pc' = "get"
         /\ attempt' = attempt + 1
         /\ ret' = ret
    ELSE /\ pc' = "done"
         /\ attempt' = attempt
         /\ ret' = Wrap(err, "failed to update cronjob for cluster", CronUpdateCtx(desired))

\* apiclient.Create(desired) and the two early returns
CronCreate ==
  /\ pc = "create"
  /\ op.fn \in CronFns
  /\ \E fault \in Faults :
       LET err == CreateErr(cron[desired.name], fault)
           nxt == CreateNext(err) IN
       /\ calls' = Append(calls, Call("Create", desired.name, err))
       /\ IF err = "nil"
            THEN /\ cron' = [cron EXCEPT ![desired.name] = [desired EXCEPT !.ver = rv + 1]]
                 /\ rv' = rv + 1
            ELSE UNCHANGED <<cron, rv>>
       /\ IF nxt = "update_path"
            THEN /\ pc' = "get"
                 /\ attempt' = 1
                 /\ ret' = ret
            ELSE /\ pc' = "done"
                 /\ attempt' = attempt
                 /\ ret' = Wrap(err, "failed to create cronjob for cluster", CronCreateCtx)
  /\ UNCHANGED <<cm, op, desired, current, todo, logged, prev, nOps, nOther, nTouch>>
  /\ UNCHANGED <<peer, pass>>

\* one attempt of the closure up to its Update: Get, compare, overwrite the spec
CronGet ==
  /\ pc = "get"
  /\ op.fn \in CronFns
  /\ \E fault \in Faults :
       LET err == GetErr(cron[desired.name], fault) IN
       /\ calls' = Append(calls, Call("Get", desired.name, err))
       /\ IF err # "nil"
            THEN /\ CronAfterAttempt(err)
                 /\ current' = current
            ELSE LET cmp == areCronJobsSame(cron[desired.name], desired) IN
                 CASE cmp.result = "panic" ->
                        /\ pc' = "panic"
                        /\ ret' = Panic
                        /\ UNCHANGED <<attempt, current>>
                   [] cmp.result = "same" ->
                        /\ CronAfterAttempt("nil")
                        /\ current' = current
                   [] OTHER ->
                        /\ pc' = "update"
                        /\ current' = UpdatedCronJob(cmp.lhs, desired)
                        /\ UNCHANGED <<attempt, ret>>
  /\ UNCHANGED <<cron, cm, rv, op, desired, todo, logged, prev, nOps, nOther, nTouch>>
  /\ UNCHANGED <<peer, pass>>

\* apiclient.Update(current), the end of one attempt
CronUpdate ==
  /\ pc = "update"
  /\ op.fn \in CronFns
  /\ \E fault \in Faults :
       LET err == UpdateErr(cron[current.name], current, fault) IN
       /\ calls' = Append(calls, Call("Update", current.name, err))
       /\ IF err = "nil"
            THEN /\ cron' = [cron EXCEPT ![current.name] = [current EXCEPT !.ver = rv + 1]]
                 /\ rv' = rv + 1
            ELSE UNCHANGED <<cron, rv>>
       /\ CronAfterAttempt(err)
  /\ UNCHANGED <<cm, op, desired, current, todo, logged, prev, nOps, nOther, nTouch>>
  /\ UNCHANGED <<peer, pass>>

(***************************************************************************)
(* ReconcileCurationConfigmap                                              *)
(***************************************************************************)
\* errCtx of ReconcileCurationConfigmap
ConfigmapCtx(des) ==
  {<<"configmap", des.name>>, <<"cluster", cluster.name>>,
   <<"namespace", cluster.namespace>>}

\* a slip: the desired keys merged into the stored content map
UpdatedConfigmap_Merge(cur, des) == [cur EXCEPT !.data = cur.data \cup des.data]

\* current.Data = desired.Data
UpdatedConfigmap(cur, des) == [cur EXCEPT !.data = des.data]

\* the closure handed to RetryOnConflict returned err: leave or go round again
CmAfterAttempt(err) ==
  LET nxt == RetryNext(err, attempt) IN
  IF nxt = "again"
    THEN /\ pc' = "get"
         /\ attempt' = attempt + 1
         /\ ret' = ret
    ELSE /\ pc' = "done"
         /\ attempt' = attempt
         /\ ret' = Wrap(err, "failed to update configmap", ConfigmapCtx(desired))

\* apiclient.Create(desired) and the two early returns
CmCreate ==
  /\ pc = "create"
  /\ op.fn = "ReconcileCurationConfigmap"
  /\ \E fault \in Faults :
       LET err == CreateErr(cm, fault)
           nxt == CreateNext(err) IN
       /\ calls' = Append(calls, Call("Create", desired.name, err))
       /\ IF err = "nil"
            THEN /\ cm' = [desired EXCEPT !.ver = rv + 1]
                 /\ rv' = rv + 1
            ELSE UNCHANGED <<cm, rv>>
       /\ IF nxt = "update_path"
            THEN /\ pc' = "get"
                 /\ attempt' = 1
                 /\ ret' = ret
            ELSE /\ pc' = "done"
                 /\ attempt' = attempt
                 /\ ret' = Wrap(err, "failed to create cluster configmap", ConfigmapCtx(desired))
  /\ UNCHANGED <<cron, op, desired, current, todo, logged, prev, nOps, nOther, nTouch>>
  /\ UNCHANGED <<peer, pass>>

\* one attempt of the closure up to its Update: Get, DeepEqual, overwrite Data
CmGet ==
  /\ pc = "get"
  /\ op.fn = "ReconcileCurationConfigmap"
  /\ \E fault \in Faults :
       LET err == GetErr(cm, fault) IN
       /\ calls' = Append(calls, Call("Get", desired.name, err))
       /\ IF err # "nil"
            THEN /\ CmAfterAttempt(err)
                 /\ current' = current
            ELSE IF desired.data = cm.data
              THEN /\ CmAfterAttempt("nil")
                   /\ current' = current
              ELSE /\ pc' = "update"
                   /\ current' = UpdatedConfigmap(cm, desired)
                   /\ UNCHANGED <<attempt, ret>>
  /\ UNCHANGED <<cron, cm, rv, op, desired, todo, logged, prev, nOps, nOther, nTouch>>
  /\ UNCHANGED <<peer, pass>>

\* apiclient.Update(current), the end of one attempt
CmUpdate ==
  /\ pc = "update"
  /\ op.fn = "ReconcileCurationConfigmap"
  /\ \E fault \in Faults :
       LET err == UpdateErr(cm, current, fault) IN
       /\ calls' = Append(calls, Call("Update", current.name, err))
       /\ IF err = "nil"
            THEN /\ cm' = [current EXCEPT !.ver = rv + 1]
                 /\ rv' = rv + 1
            ELSE UNCHANGED <<cm, rv>>
       /\ CmAfterAttempt(err)
  /\ UNCHANGED <<cron, op, desired, current, todo, logged, prev, nOps, nOther, nTouch>>
  /\ UNCHANGED <<peer, pass>>

(***************************************************************************)
(* Entry points                                                            *)
(***************************************************************************)
\* the policies an entry point can be handed: the phases of a policy of the
\* policy map, a poll interval, and the minimum age of the delete phase
Policies ==
  {[Hot |-> PolicyMap[r].Hot, Delete |-> PolicyMap[r].Delete,
    PollInterval |-> p, MinAge |-> a] :
      r \in DOMAIN PolicyMap, p \in PollIntervals, a \in MinAges}

\* the policies the model hands to the entry points: every combination of
\* phases, each poll interval, each minimum age
PolicyInputs ==
  {pol \in Policies :
     \/ pol.PollInterval = "1m" /\ pol.MinAge = "7d"
     \/ pol.Hot /\ ~pol.Delete /\ pol.MinAge = "7d"
     \/ pol.Delete /\ ~pol.Hot /\ pol.PollInterval # "15m"}

\* the reconciler is between two invocations
Ready == pc \in {"idle", "done"}

\* the controller has invocations left to make
Idle == Ready /\ nOps < MaxOps

\* what the model remembers of the invocation that just ended
Summary ==
  [desired |-> desired,
   created |-> (calls # <<>> /\ calls[1].verb = "Create" /\ calls[1].err = "nil"),
   ver     |-> IF desired # NoObj /\ desired.kind = "CronJob" /\ cron[desired.name] # NoObj
                 THEN cron[desired.name].ver ELSE 0,
   other   |-> op.other]

\* an invocation begins: the locals are fresh
Begin(o) ==
  /\ op' = [o EXCEPT !.other = nOther + nTouch]
  /\ prev' = Summary
  /\ calls' = <<>>
  /\ current' = NoObj
  /\ attempt' = 0
  /\ todo' = <<>>
  /\ logged' = {}

\* ReconcileRolloverCronjob up to its call of reconcileCronJob
ReconcileRolloverCronjob(policy, mappingName) ==
  LET sched == crontabScheduleFor(policy.PollInterval) IN
  /\ Ready
  /\ Begin([fn |-> "ReconcileRolloverCronjob", policy |-> policy,
            mapping |-> mappingName, other |-> 0])
  /\ IF ~policy.Hot
       THEN /\ pc' = "done"
            /\ ret' = Ok
            /\ desired' = NoObj
       ELSE IF sched.err # "nil"
         THEN /\ pc' = "done"
              /\ ret' = Wrap(sched.err, "failed to reconcile rollover cronjob",
                             {<<"policymapping", mappingName>>})
              /\ desired' = NoObj
         ELSE /\ pc' = "create"
              /\ ret' = NoRet
              /\ desired' = RolloverDesired(mappingName, sched.schedule)
  /\ UNCHANGED <<cron, cm, rv, nOther, nTouch, peer>>

\* a slip: the error of the minimum age not looked at
ReconcileCurationCronjob_AgeUnchecked(policy, mappingName) ==
  LET sched == crontabScheduleFor(policy.PollInterval)
      age == calculateMillisForTimeUnit(policy.MinAge) IN
  /\ Ready
  /\ Begin([fn |-> "ReconcileCurationCronjob", policy |-> policy,
            mapping |-> mappingName, other |-> 0])
  /\ IF ~policy.Delete
       THEN /\ pc' = "done"
            /\ ret' = Ok
            /\ desired' = NoObj
       ELSE IF sched.err # "nil"
         THEN /\ pc' = "done"
              /\ ret' = [status |-> "error", cause |-> sched.err, msg |-> "", ctx |-> {}]
              /\ desired' = NoObj
         ELSE /\ pc' = "create"
              /\ ret' = NoRet
              /\ desired' = CurationDesired(mappingName, sched.schedule, age.millis)
  /\ UNCHANGED <<cron, cm, rv, nOther, nTouch, peer>>

\* ReconcileCurationCronjob up to its call of reconcileCronJob
ReconcileCurationCronjob(policy, mappingName) ==
  LET sched == crontabScheduleFor(policy.PollInterval)
      age == calculateMillisForTimeUnit(policy.MinAge) IN
  /\ Ready
  /\ Begin([fn |-> "ReconcileCurationCronjob", policy |-> policy,
            mapping |-> mappingName, other |-> 0])
  /\ IF ~policy.Delete
       THEN /\ pc' = "done"
            /\ ret' = Ok
            /\ desired' = NoObj
       ELSE IF sched.err # "nil"
         THEN /\ pc' = "done"
              /\ ret' = [status |-> "error", cause |-> sched.err, msg |-> "", ctx |-> {}]
              /\ desired' = NoObj
       ELSE IF age.err # "nil"
         THEN /\ pc' = "done"
              /\ ret' = [status |-> "error", cause |-> age.err, msg |-> "", ctx |-> {}]
              /\ desired' = NoObj
         ELSE /\ pc' = "create"
              /\ ret' = NoRet
              /\ desired' = CurationDesired(mappingName, sched.schedule, age.millis)
  /\ UNCHANGED <<cron, cm, rv, nOther, nTouch, peer>>

\* ReconcileCurationConfigmap up to its Create
ReconcileCurationConfigmap ==
  /\ Ready
  /\ Begin([fn |-> "ReconcileCurationConfigmap", other |-> 0])
  /\ pc' = "create"
  /\ ret' = NoRet
  /\ desired' = ConfigmapDesired
  /\ UNCHANGED <<cron, cm, rv, nOther, nTouch, peer>>

(***************************************************************************)
(* RemoveCronJobsForMappings                                               *)
(***************************************************************************)
Mappings == [name : MappingNames, policyRef : PolicyRefs]

MappingLists == UNION {[1..n -> Mappings] : n \in 0..MaxMappings}

\* a slip: the rollover name inserted without a look at the Hot phase
MappingExpected_NoHotCheck(mapping, policies) ==
  LET policy == PolicyOf(policies, mapping.policyRef) IN
  {RolloverName(cluster.name, mapping.name)}
    \cup
  (IF policy.Delete THEN {DeleteName(cluster.name, mapping.name)} ELSE {})

\* a slip: the two phases taken for each other
MappingExpected_Swapped(mapping, policies) ==
  LET policy == PolicyOf(policies, mapping.policyRef) IN
  (IF policy.Delete THEN {RolloverName(cluster.name, mapping.name)} ELSE {})
    \cup
  (IF policy.Hot THEN {DeleteName(cluster.name, mapping.name)} ELSE {})

\* the names one mapping puts into the expected set
MappingExpected(mapping, policies) ==
  LET policy == PolicyOf(policies, mapping.policyRef) IN
  (IF policy.Hot THEN {RolloverName(cluster.name, mapping.name)} ELSE {})
    \cup
  (IF policy.Delete THEN {DeleteName(cluster.name, mapping.name)} ELSE {})

\* the expected set after the loop over the mappings
ExpectedNames(mappings, policies) ==
  UNION {MappingExpected(mappings[i], policies) : i \in 1..Len(mappings)}

\* a slip: everything listed is deleted
Difference_All(existing, expected) == existing

\* a slip: the difference taken the other way round
Difference_Reversed(existing, expected) == expected \ existing

\* existing.Difference(expected)
Difference(existing, expected) == existing \ expected

\* sets.String.List(): the names of a set in sorted order
SortedList(names) == SelectSeq(NameOrder, LAMBDA n : n \in names)

\* RemoveCronJobsForMappings up to its List
RemoveCronJobsForMappings(mappings, policies) ==
  /\ Ready
  /\ Begin([fn |-> "RemoveCronJobsForMappings", mappings |-> mappings,
            expected |-> ExpectedNames(mappings, policies), listed |-> {},
            other |-> 0])
  /\ pc' = "list"
  /\ ret' = NoRet
  /\ desired' = NoObj
  /\ UNCHANGED <<cron, cm, rv, nOther, nTouch, peer>>

\* apiclient.List, and the difference the loop then walks
CleanupList ==
  /\ pc = "list"
  /\ \E fault \in Faults :
       LET existing == ListNames(cron, imLabels)
           difference == Difference(existing, op.expected) IN
       /\ calls' = Append(calls, Call("List", "", fault))
       /\ IF fault # "nil"
            THEN /\ pc' = "done"
                 /\ ret' = Wrap(fault, "failed to list cron jobs",
                                {<<"namespace", cluster.namespace>>, <<"labels", imLabels>>})
                 /\ UNCHANGED <<todo, op>>
            ELSE /\ todo' = SortedList(difference)
                 /\ op' = [op EXCEPT !.listed = existing]
                 /\ IF difference = {}
                      THEN pc' = "done" /\ ret' = Wrap("nil", "", {})
                      ELSE pc' = "delete" /\ ret' = ret
  /\ UNCHANGED <<cron, cm, rv, desired, current, attempt, logged, prev, nOps, nOther, nTouch>>
  /\ UNCHANGED <<peer, pass>>

\* a delete error is logged unless it is not-found
DeleteLogged(err) == err # "nil" /\ ~IsNotFound(err)

\* a slip: the loop left at the first delete that fails
DeleteLoopNext_Abort(err, rest) ==
  IF rest = <<>> \/ err # "nil" THEN "done" ELSE "delete"

\* the delete loop after the Delete of one name returned err, with the names
\* in rest still to go: the loop goes on whatever err is
DeleteLoopNext(err, rest) == IF rest = <<>> THEN "done" ELSE "delete"

\* one pass of the delete loop: apiclient.Delete of the next name
CleanupDelete ==
  /\ pc = "delete"
  /\ \E fault \in Faults :
       LET name == Head(todo)
           err == DeleteErr(cron[name], fault) IN
       /\ calls' = Append(calls, Call("Delete", name, err))
       /\ IF err = "nil"
            THEN /\ cron' = [cron EXCEPT ![name] = NoObj]
                 /\ rv' = rv + 1
            ELSE UNCHANGED <<cron, rv>>
       /\ logged' = IF DeleteLogged(err) THEN logged \cup {name} ELSE logged
       /\ todo' = Tail(todo)
       /\ pc' = DeleteLoopNext(err, Tail(todo))
       /\ ret' = IF pc' = "done" THEN Wrap("nil", "", {}) ELSE ret
  /\ UNCHANGED <<cm, op, desired, current, attempt, prev, nOps, nOther, nTouch>>
  /\ UNCHANGED <<peer, pass>>

(***************************************************************************)
(* The other actor: another controller or a human writing the same objects *)
(***************************************************************************)
\* the derived cron jobs that carry a name
DerivedOf(name) ==
  {d \in {RolloverDesired(m, "*/1 * * * *") : m \in MappingNames}
           \cup {CurationDesired(m, "*/1 * * * *", 604800000) : m \in MappingNames} :
     d.name = name}

Sidecar ==
  [name |-> "sidecar", image |-> "proxy:1", command |-> <<>>, args |-> <<>>,
   requests |-> {}, env |-> <<>>]

Edits == {"suspend", "sidecar", "nocontainers", "schedule", "policy", "unlabel"}

\* the object after an edit of the other actor
Edited(obj, edit) ==
  CASE edit = "suspend"      -> [obj EXCEPT !.spec.suspend = "true"]
    [] edit = "sidecar"      -> [obj EXCEPT !.spec.containers = Append(@, Sidecar)]
    [] edit = "nocontainers" -> [obj EXCEPT !.spec.containers = <<>>]
    [] edit = "schedule"     -> [obj EXCEPT !.spec.schedule = "@daily"]
    [] edit = "policy"       -> [obj EXCEPT !.spec.concurrencyPolicy = "Allow"]
    [] edit = "unlabel"      -> [obj EXCEPT !.labels = {}]
    [] OTHER                 -> obj

\* the other actor creates a cron job under a derived name, labelled or not
OtherCreate(names) ==
  /\ nOther < MaxOtherWrites
  /\ \E name \in names, labels \in {imLabels, {}} :
       /\ cron[name] = NoObj
       /\ \E d \in DerivedOf(name) :
            cron' = [cron EXCEPT ![name] =
                       [d EXCEPT !.labels = labels, !.owner = "", !.ver = rv + 1]]
  /\ rv' = rv + 1
  /\ nOther' = nOther + 1
  /\ UNCHANGED <<cm, pc, op, desired, current, attempt, calls, ret, todo, logged,
                 prev, nOps, nTouch>>
  /\ UNCHANGED <<peer, pass>>

\* the other actor edits a stored cron job
OtherEdit(names) ==
  /\ nOther < MaxOtherWrites
  /\ \E name \in names, edit \in Edits :
       /\ cron[name] # NoObj
       /\ Edited(cron[name], edit) # cron[name]
       /\ cron' = [cron EXCEPT ![name] = [Edited(cron[name], edit) EXCEPT !.ver = rv + 1]]
  /\ rv' = rv + 1
  /\ nOther' = nOther + 1
  /\ UNCHANGED <<cm, pc, op, desired, current, attempt, calls, ret, todo, logged,
                 prev, nOps, nTouch>>
  /\ UNCHANGED <<peer, pass>>

\* the other actor deletes a stored cron job
OtherDelete(names) ==
  /\ nOther < MaxOtherWrites
  /\ \E name \in names :
       /\ cron[name] # NoObj
       /\ cron' = [cron EXCEPT ![name] = NoObj]
  /\ rv' = rv + 1
  /\ nOther' = nOther + 1
  /\ UNCHANGED <<cm, pc, op, desired, current, attempt, calls, ret, todo, logged,
                 prev, nOps, nTouch>>
  /\ UNCHANGED <<peer, pass>>

\* a status write (the cron job controller, a kubelet): only the version
\* changes. It is taken where the reconciler can tell: on the object of the
\* attempt under way, between its Get and its Update
OtherTouch ==
  /\ pc = "update"
  /\ IF op.fn \in CronFns
       THEN /\ cron[current.name] # NoObj
            /\ cron[current.name].ver = current.ver
            /\ cron' = [cron EXCEPT ![current.name].ver = rv + 1]
            /\ cm' = cm
       ELSE /\ cm # NoObj
            /\ cm.ver = current.ver
            /\ cm' = [cm EXCEPT !.ver = rv + 1]
            /\ cron' = cron
  /\ rv' = rv + 1
  /\ nTouch' = nTouch + 1
  /\ UNCHANGED <<pc, op, desired, current, attempt, calls, ret, todo, logged,
                 prev, nOps, nOther>>
  /\ UNCHANGED <<peer, pass>>

\* the other actor writes the configmap: a changed script, or a version only
OtherConfigmap ==
  /\ nOther < MaxOtherWrites
  /\ pc \in {"create", "get", "update"}
  /\ op.fn = "ReconcileCurationConfigmap"
  /\ \/ /\ cm # NoObj
        /\ \E data \in {cm.data, {<<"delete", "d0">>, <<"extra", "e">>}} :
             cm' = [cm EXCEPT !.data = data, !.ver = rv + 1]
     \/ /\ cm # NoObj
        /\ cm' = NoObj
     \/ /\ cm = NoObj
        /\ cm' = [ConfigmapDesired EXCEPT !.data = {<<"delete", "d0">>, <<"extra", "e">>},
                                          !.labels = {}, !.owner = "", !.ver = rv + 1]
  /\ rv' = rv + 1
  /\ nOther' = nOther + 1
  /\ UNCHANGED <<cron, pc, op, desired, current, attempt, calls, ret, todo, logged,
                 prev, nOps, nTouch>>
  /\ UNCHANGED <<peer, pass>>

\* the second reconciler, before it has begun
NoPeer == [pc |-> "idle", attempt |-> 0, current |-> NoObj, calls |-> <<>>, ret |-> NoRet]

\* no pass over a mapping list is under way
NoPass == [phase |-> "none"]

(***************************************************************************)
(* Specification                                                           *)
(***************************************************************************)
\* the mappings the converger is run for
ConvergeMappings == {"X"}

\* A write of the other actor to an object no invocation is working on
\* changes nothing that invocation reads, and one between two invocations is
\* one before the Create of the second. The other actor is therefore taken
\* where the reconciler can tell: on the object of the invocation under way.
Focus ==
  IF pc \in {"create", "get", "update"} /\ op.fn \in CronFns
    THEN {desired.name} ELSE {}

\* the same for the cleanup: the next name of the delete loop
FocusCleanup == IF pc = "delete" THEN {Head(todo)} ELSE {}

Init ==
  /\ cron = [n \in CronNames |-> NoObj]
  /\ cm = NoObj
  /\ rv = 0
  /\ pc = "idle"
  /\ op = [fn |-> "none", other |-> 0]
  /\ desired = NoObj
  /\ current = NoObj
  /\ attempt = 0
  /\ calls = <<>>
  /\ ret = NoRet
  /\ todo = <<>>
  /\ logged = {}
  /\ prev = [desired |-> NoObj, created |-> FALSE, ver |-> 0, other |-> 0]
  /\ nOps = 0
  /\ nOther = 0
  /\ nTouch = 0
  /\ peer = NoPeer
  /\ pass = NoPass

\* the controller calls an entry point with some input
Invoke == Idle /\ nOps' = nOps + 1 /\ pass' = pass

CallRollover(mappingNames) ==
  Invoke /\ \E policy \in PolicyInputs, m \in mappingNames :
              ReconcileRolloverCronjob(policy, m)

CallCuration(mappingNames) ==
  Invoke /\ \E policy \in PolicyInputs, m \in mappingNames :
              ReconcileCurationCronjob(policy, m)

CallConfigmap == Invoke /\ ReconcileCurationConfigmap

CallCleanup ==
  Invoke /\ \E mappings \in MappingLists :
              RemoveCronJobsForMappings(mappings, PolicyMap)

\* the converger: the three reconcile entry points against the other actor
Next ==
  \/ CallRollover(ConvergeMappings)
  \/ CallCuration(ConvergeMappings)
  \/ CallConfigmap
  \/ CronCreate
  \/ CronGet
  \/ CronUpdate
  \/ CmCreate
  \/ CmGet
  \/ CmUpdate
  \/ OtherCreate(Focus)
  \/ OtherEdit(Focus)
  \/ OtherDelete(Focus)
  \/ OtherTouch
  \/ OtherConfigmap

Spec == Init /\ [][Next]_vars

\* the stores an invocation can find: under each name nothing, a labelled
\* cron job or one without the labels. One invocation is left to run.
InitCleanup ==
  /\ cron \in [CronNames -> {NoObj} \cup
                 UNION {{[d EXCEPT !.labels = l, !.ver = 1] : l \in {imLabels, {}}} :
                          d \in UNION {DerivedOf(n) : n \in CronNames}}]
  /\ \A n \in CronNames : cron[n] # NoObj => cron[n].name = n
  /\ cm = NoObj
  /\ rv = 1
  /\ pc = "idle"
  /\ op = [fn |-> "none", other |-> 0]
  /\ desired = NoObj
  /\ current = NoObj
  /\ attempt = 0
  /\ calls = <<>>
  /\ ret = NoRet
  /\ todo = <<>>
  /\ logged = {}
  /\ prev = [desired |-> NoObj, created |-> FALSE, ver |-> 0, other |-> 0]
  /\ nOps = MaxOps - 1
  /\ nOther = 0
  /\ nTouch = 0
  /\ peer = NoPeer
  /\ pass = NoPass

\* one invocation on a store that holds anything: the orphan cleanup, against
\* the other actor, or the reconcile of a cron job
NextCleanup ==
  \/ CallCleanup
  \/ CallRollover(MappingNames)
  \/ CallCuration(MappingNames)
  \/ CronCreate
  \/ CronGet
  \/ CronUpdate
  \/ CleanupList
  \/ CleanupDelete
  \/ OtherDelete(FocusCleanup)

SpecCleanup == InitCleanup /\ [][NextCleanup]_vars

(***************************************************************************)
(* The sameness predicate on its own: reconcileCronJob on a stored cron job  *)
(* and a desired one that differ in any of the fields a cron job has         *)
(***************************************************************************)
\* how many fields the stored cron job differs in from the one newCronJob builds
MaxVariations == 2

Variations ==
  {"suspendTrue", "suspendFalse", "schedule", "nodeSelector", "tolerations",
   "tolerationsReversed", "policy", "containerName", "containerImage",
   "containerCommand", "containerArgs", "containerRequests", "containerEnv",
   "sidecar", "nocontainers", "labels"}

\* the first container of a cron job with one field changed, if it has one
VariedContainer(obj, field, value) ==
  IF obj.spec.containers = <<>> THEN obj
  ELSE [obj EXCEPT !.spec.containers[1] = [@ EXCEPT ![field] = value]]

\* a cron job with one field changed
Varied(obj, v) ==
  CASE v = "suspendTrue"  -> [obj EXCEPT !.spec.suspend = "true"]
    [] v = "suspendFalse" -> [obj EXCEPT !.spec.suspend = "false"]
    [] v = "schedule"     -> [obj EXCEPT !.spec.schedule = "*/15 * * * *"]
    [] v = "nodeSelector" -> [obj EXCEPT !.spec.nodeSelector = @ \cup {<<"zone", "a">>}]
    [] v = "tolerations"  -> [obj EXCEPT !.spec.tolerations = <<"t1", "t2">>]
    [] v = "tolerationsReversed" -> [obj EXCEPT !.spec.tolerations = <<"t2", "t1">>]
    [] v = "policy"       -> [obj EXCEPT !.spec.concurrencyPolicy = "Allow"]
    [] v = "containerName"     -> VariedContainer(obj, "name", "curator")
    [] v = "containerImage"    -> VariedContainer(obj, "image", "es:5")
    [] v = "containerCommand"  -> VariedContainer(obj, "command", <<"sh">>)
    [] v = "containerArgs"     -> VariedContainer(obj, "args", <<"-c", "/tmp/scripts/other">>)
    [] v = "containerRequests" -> VariedContainer(obj, "requests", {<<"memory", "64Mi">>})
    [] v = "containerEnv"      -> VariedContainer(obj, "env", <<<<"ES_SERVICE", "https://B:9200">>>>)
    [] v = "sidecar"      -> [obj EXCEPT !.spec.containers = Append(@, Sidecar)]
    [] v = "nocontainers" -> [obj EXCEPT !.spec.containers = <<>>]
    [] v = "labels"       -> [obj EXCEPT !.labels = {}]
    [] OTHER              -> obj

\* the cron jobs that differ from obj by at most n variations
RECURSIVE VariedUpTo(_, _)
VariedUpTo(obj, n) ==
  IF n = 0 THEN {obj}
  ELSE LET less == VariedUpTo(obj, n - 1) IN
       less \cup {Varied(o, v) : o \in less, v \in Variations}

\* the cron job the comparisons start from
SameBase == RolloverDesired("X", "*/1 * * * *")

\* reconcileCronJob is entered with a desired cron job while a cron job of the
\* same name is stored; the two differ in up to MaxVariations + 1 fields
InitSame ==
  /\ \E stored \in VariedUpTo(SameBase, MaxVariations) :
       cron = [n \in CronNames |->
                 IF n = SameBase.name THEN [stored EXCEPT !.ver = 1] ELSE NoObj]
  /\ desired \in VariedUpTo(SameBase, 1)
  /\ cm = NoObj
  /\ rv = 1
  /\ pc = "create"
  /\ op = [fn |-> "ReconcileRolloverCronjob",
           policy |-> [Hot |-> TRUE, Delete |-> FALSE, PollInterval |-> "1m", MinAge |-> "7d"],
           mapping |-> "X", other |-> 0]
  /\ current = NoObj
  /\ attempt = 0
  /\ calls = <<>>
  /\ ret = NoRet
  /\ todo = <<>>
  /\ logged = {}
  /\ prev = [desired |-> NoObj, created |-> FALSE, ver |-> 0, other |-> 0]
  /\ nOps = MaxOps
  /\ nOther = 0
  /\ nTouch = 0
  /\ peer = NoPeer
  /\ pass = NoPass

NextSame ==
  \/ CronCreate
  \/ CronGet
  \/ CronUpdate

SpecSame == InitSame /\ [][NextSame]_vars

(***************************************************************************)

(* Two reconcilers: a second process runs reconcileCronJob with the same     *)
(* desired cron job against the same store                                   *)
(***************************************************************************)
\* the closure of the second reconciler returned err: leave or go round again
PeerAfterAttempt(p, err) ==
  IF RetryNext(err, p.attempt) = "again"
    THEN [p EXCEPT !.pc = "get", !.attempt = @ + 1]
    ELSE [p EXCEPT !.pc = "done",
                   !.ret = Wrap(err, "failed to update cronjob for cluster",
                                CronUpdateCtx(desired))]

\* apiclient.Create(desired) of the second reconciler and its two early returns
PeerCreate ==
  /\ peer.pc = "create"
  /\ \E fault \in Faults :
       LET err == CreateErr(cron[desired.name], fault)
           nxt == CreateNext(err)
           called == [peer EXCEPT !.calls = Append(@, Call("Create", desired.name, err))] IN
       /\ IF err = "nil"
            THEN /\ cron' = [cron EXCEPT ![desired.name] = [desired EXCEPT !.ver = rv + 1]]
                 /\ rv' = rv + 1
            ELSE UNCHANGED <<cron, rv>>
       /\ peer' = IF nxt = "update_path"
                    THEN [called EXCEPT !.pc = "get", !.attempt = 1]
                    ELSE [called EXCEPT !.pc = "done",
                                        !.ret = Wrap(err, "failed to create cronjob for cluster",
                                                     CronCreateCtx)]
  /\ UNCHANGED <<cm, pc, op, desired, current, attempt, calls, ret, todo, logged,
                 prev, nOps, nOther, nTouch, pass>>

\* one attempt of the closure of the second reconciler up to its Update
PeerGet ==
  /\ peer.pc = "get"
  /\ \E fault \in Faults :
       LET err == GetErr(cron[desired.name], fault)
           called == [peer EXCEPT !.calls = Append(@, Call("Get", desired.name, err))] IN
       peer' = IF err # "nil" THEN PeerAfterAttempt(called, err)
               ELSE LET cmp == areCronJobsSame(cron[desired.name], desired) IN
                    CASE cmp.result = "panic" ->
                           [called EXCEPT !.pc = "panic", !.ret = Panic]
                      [] cmp.result = "same" -> PeerAfterAttempt(called, "nil")
                      [] OTHER ->
                           [called EXCEPT !.pc = "update",
                                          !.current = UpdatedCronJob(cmp.lhs, desired)]
  /\ UNCHANGED <<cron, cm, rv, pc, op, desired, current, attempt, calls, ret, todo,
                 logged, prev, nOps, nOther, nTouch, pass>>

\* apiclient.Update(current) of the second reconciler, the end of one attempt
PeerUpdate ==
  /\ peer.pc = "update"
  /\ \E fault \in Faults :
       LET err == UpdateErr(cron[peer.current.name], peer.current, fault)
           called == [peer EXCEPT !.calls = Append(@, Call("Update", peer.current.name, err))] IN
       /\ IF err = "nil"
            THEN /\ cron' = [cron EXCEPT ![peer.current.name] =
                                           [peer.current EXCEPT !.ver = rv + 1]]
                 /\ rv' = rv + 1
            ELSE UNCHANGED <<cron, rv>>
       /\ peer' = PeerAfterAttempt(called, err)
  /\ UNCHANGED <<cm, pc, op, desired, current, attempt, calls, ret, todo, logged,
                 prev, nOps, nOther, nTouch, pass>>

\* the invocations two reconcilers can be in together: an entry point, a
\* mapping and a policy whose translation succeeds, which give the desired
\* cron job of both
PairInputs ==
  {[fn |-> f, policy |-> pol, mapping |-> m, other |-> 0] :
     f \in CronFns, m \in MappingNames,
     pol \in {q \in PolicyInputs :
                q.Hot /\ q.Delete /\ q.PollInterval # "bad" /\ q.MinAge # "bad"}}
    \cup
  {[fn |-> "ReconcileRolloverCronjob", policy |-> pol, mapping |-> m, other |-> 0] :
     m \in MappingNames,
     pol \in {q \in PolicyInputs : q.Hot /\ ~q.Delete /\ q.PollInterval # "bad"}}

\* the desired cron job of an invocation
DesiredOf(o) ==
  IF o.fn = "ReconcileRolloverCronjob"
    THEN RolloverDesired(o.mapping, crontabScheduleFor(o.policy.PollInterval).schedule)
    ELSE CurationDesired(o.mapping, crontabScheduleFor(o.policy.PollInterval).schedule,
                         calculateMillisForTimeUnit(o.policy.MinAge).millis)

\* both reconcilers have built the same desired cron job and stand before
\* their Create; the cron job is not stored
InitPair ==
  /\ cron = [n \in CronNames |-> NoObj]
  /\ cm = NoObj
  /\ rv = 0
  /\ pc = "create"
  /\ op \in PairInputs
  /\ desired = DesiredOf(op)
  /\ current = NoObj
  /\ attempt = 0
  /\ calls = <<>>
  /\ ret = NoRet
  /\ todo = <<>>
  /\ logged = {}
  /\ prev = [desired |-> NoObj, created |-> FALSE, ver |-> 0, other |-> 0]
  /\ nOps = MaxOps
  /\ nOther = 0
  /\ nTouch = 0
  /\ peer = [NoPeer EXCEPT !.pc = "create"]
  /\ pass = NoPass

\* the other actor is taken while either reconciler is at work on the object
FocusPair ==
  IF pc \in {"create", "get", "update"} \/ peer.pc \in {"create", "get", "update"}
    THEN {desired.name} ELSE {}

NextPair ==
  \/ CronCreate
  \/ CronGet
  \/ CronUpdate
  \/ PeerCreate
  \/ PeerGet
  \/ PeerUpdate
  \/ OtherCreate(FocusPair)
  \/ OtherEdit(FocusPair)

SpecPair == InitPair /\ [][NextPair]_vars

(***************************************************************************)

(* A full pass: the two cron job entry points for every mapping of a list,   *)
(* in the order of the list, and then the orphan cleanup                     *)
(***************************************************************************)
\* the stores a pass can find: under each name nothing, a labelled cron job
\* or one without the labels
FoundStores ==
  {c \in [CronNames -> {NoObj} \cup
            UNION {{[d EXCEPT !.labels = l, !.ver = 1] : l \in {imLabels, {}}} :
                     d \in UNION {DerivedOf(n) : n \in CronNames}}] :
     \A n \in CronNames : c[n] # NoObj => c[n].name = n}

\* the policy a mapping refers to, with the poll interval of the pass
PassPolicy(ref, poll) ==
  [Hot |-> PolicyOf(PolicyMap, ref).Hot, Delete |-> PolicyOf(PolicyMap, ref).Delete,
   PollInterval |-> poll, MinAge |-> "7d"]

\* the pass goes on while no invocation of it has returned an error
PassReady == Ready /\ (pc = "done" => ret = Ok)

\* the pass calls ReconcileRolloverCronjob for its next mapping
PassRollover ==
  /\ PassReady
  /\ pass.phase = "rollover"
  /\ ReconcileRolloverCronjob(PassPolicy(pass.mappings[pass.i].policyRef, pass.poll),
                              pass.mappings[pass.i].name)
  /\ pass' = [pass EXCEPT !.phase = "curation"]
  /\ nOps' = nOps

\* the pass calls ReconcileCurationCronjob for the same mapping
PassCuration ==
  /\ PassReady
  /\ pass.phase = "curation"
  /\ ReconcileCurationCronjob(PassPolicy(pass.mappings[pass.i].policyRef, pass.poll),
                              pass.mappings[pass.i].name)
  /\ pass' = IF pass.i < Len(pass.mappings)
               THEN [pass EXCEPT !.phase = "rollover", !.i = @ + 1]
               ELSE [pass EXCEPT !.phase = "cleanup"]
  /\ nOps' = nOps

\* the pass ends with RemoveCronJobsForMappings
PassCleanup ==
  /\ PassReady
  /\ pass.phase = "cleanup"
  /\ RemoveCronJobsForMappings(pass.mappings, PolicyMap)
  /\ pass' = [pass EXCEPT !.phase = "end"]
  /\ nOps' = nOps

\* a pass begins on some store with some mapping list and poll interval
InitPass ==
  /\ cron \in FoundStores
  /\ cm = NoObj
  /\ rv = 1
  /\ pc = "idle"
  /\ op = [fn |-> "none", other |-> 0]
  /\ desired = NoObj
  /\ current = NoObj
  /\ attempt = 0
  /\ calls = <<>>
  /\ ret = NoRet
  /\ todo = <<>>
  /\ logged = {}
  /\ prev = [desired |-> NoObj, created |-> FALSE, ver |-> 0, other |-> 0]
  /\ nOps = 0
  /\ nOther = 0
  /\ nTouch = 0
  /\ peer = NoPeer
  /\ \E mappings \in MappingLists, poll \in {"1m", "15m"} :
       pass = [phase |-> IF mappings = <<>> THEN "cleanup" ELSE "rollover",
               mappings |-> mappings, i |-> 1, poll |-> poll, found |-> cron]

NextPass ==
  \/ PassRollover
  \/ PassCuration
  \/ PassCleanup
  \/ CronCreate
  \/ CronGet
  \/ CronUpdate
  \/ CleanupList
  \/ CleanupDelete

SpecPass == InitPass /\ [][NextPass]_vars

(***************************************************************************)

(* Properties                                                              *)
(***************************************************************************)
NumCalls(verb) == Cardinality({i \in 1..Len(calls) : calls[i].verb = verb})

LastCall == calls[Len(calls)]

\* an invocation that reached reconcileCronJob
InCron == op.fn \in CronFns /\ desired # NoObj

\* an invocation of ReconcileCurationConfigmap
InCm == op.fn = "ReconcileCurationConfigmap"

\* no other actor has written since the invocation before this one began
QuietSincePrev == op.other = prev.other /\ nOther + nTouch = prev.other

\* no other actor has written since this invocation began
QuietSinceBegin == nOther + nTouch = op.other

\* C1: when a desired cron job is reconciled a second time, after a first
\* pass that created it and with no write of another actor since that pass
\* began, the second pass issues no Update, the stored object keeps the
\* version the first pass left, and the pass ends in success unless a store
\* call failed.
C1_Idempotent ==
  (InCron /\ prev.created /\ prev.desired = desired /\ QuietSincePrev)
    => /\ NumCalls("Update") = 0
       /\ pc # "update"
       /\ cron[desired.name] # NoObj
       /\ cron[desired.name].ver = prev.ver
       /\ pc = "done" => \/ ret = Ok
                         \/ ret.status = "error" /\ ret.cause = "Forbidden"

C1_Witness ==
  /\ InCron /\ prev.created /\ prev.desired = desired /\ QuietSincePrev
  /\ pc = "done"
  /\ ret = Ok
  /\ calls = <<Call("Create", desired.name, "AlreadyExists"),
               Call("Get", desired.name, "nil")>>

\* the step in which an Update of reconcileCronJob succeeds
CronUpdateSucceeds ==
  /\ pc = "update"
  /\ InCron
  /\ calls' = Append(calls, Call("Update", desired.name, "nil"))

\* the desired object differs from the stored one in the schedule and in no
\* other field that it sets (it leaves the suspend flag unset)
DiffersOnlyInSchedule(stored, des) ==
  /\ stored.spec.schedule # des.spec.schedule
  /\ [stored.spec EXCEPT !.schedule = des.spec.schedule, !.suspend = des.spec.suspend]
       = des.spec

C3_ConflictRetry ==
  (/\ InCron
   /\ pc = "done"
   /\ calls # <<>>
   /\ LastCall = Call("Update", desired.name, "nil")
   /\ \E i \in 1..Len(calls) : calls[i] = Call("Update", desired.name, "Conflict"))
    => /\ ret = Ok
       /\ cron[desired.name] # NoObj
       /\ cron[desired.name].spec = desired.spec
       /\ areCronJobsSame(cron[desired.name], desired).result = "same"

C3_Witness ==
  /\ InCron
  /\ pc = "done"
  /\ ret = Ok
  /\ calls = <<Call("Create", desired.name, "AlreadyExists"),
               Call("Get", desired.name, "nil"),
               Call("Update", desired.name, "Conflict"),
               Call("Get", desired.name, "nil"),
               Call("Update", desired.name, "nil")>>
  /\ cron[desired.name].spec = desired.spec

\* an invocation of the orphan cleanup
InCleanup == op.fn = "RemoveCronJobsForMappings"

\* the positions of the Delete calls of the invocation
DeleteCalls == {i \in 1..Len(calls) : calls[i].verb = "Delete"}

\* the names the Delete calls of the invocation were issued for, in order
RECURSIVE DeletedFrom(_)
DeletedFrom(i) ==
  IF i > Len(calls) THEN <<>>
  ELSE IF calls[i].verb = "Delete" THEN <<calls[i].name>> \o DeletedFrom(i + 1)
  ELSE DeletedFrom(i + 1)

\* the List of the invocation has answered without an error
Listed == Len(calls) >= 1 /\ calls[1] = Call("List", "", "nil")

\* C4: the cleanup issues a Delete for the names that the List returned and
\* that are not expected, and for no other name: every Delete is for a listed
\* name that is not expected, no name is deleted twice, what the List returned
\* is the set of stored cron jobs that carry the labels, and when the cleanup
\* has ended every listed name that is not expected has had its Delete.
C4_DeletesExactlyOrphans ==
  InCleanup
    => /\ \A i \in DeleteCalls : calls[i].name \in op.listed \ op.expected
       /\ \A i, j \in DeleteCalls : calls[i].name = calls[j].name => i = j
       /\ (Listed /\ Len(calls) = 1 /\ nOther = 0)
            => op.listed = {n \in CronNames : cron[n] # NoObj /\ imLabels \subseteq cron[n].labels}
       /\ (Listed /\ pc = "done")
            => {calls[i].name : i \in DeleteCalls} = op.listed \ op.expected

\* the example of the specification: X without a delete phase, Y removed
C4_Witness ==
  /\ InCleanup
  /\ pc = "done"
  /\ op.listed = {"A-rollover-X", "A-delete-X", "A-rollover-Y"}
  /\ op.expected = {"A-rollover-X"}
  /\ {calls[i].name : i \in DeleteCalls} = {"A-delete-X", "A-rollover-Y"}
  /\ cron["A-rollover-X"] # NoObj
  /\ cron["A-delete-X"] = NoObj
  /\ cron["A-rollover-Y"] = NoObj

\* C5: a Delete that fails does not stop the cleanup. Once the List has
\* answered, the cleanup ends only after a Delete for every orphan, in the
\* order of the sorted names, whatever the Deletes before answered, and it
\* returns no error; a failure is logged unless it is not-found, which counts
\* as success.
C5_DeleteFailuresDoNotStop ==
  (InCleanup /\ Listed)
    => /\ pc \in {"delete", "done"}
       /\ DeletedFrom(1) \o todo = SortedList(op.listed \ op.expected)
       /\ pc = "done" => todo = <<>> /\ ret = Ok
       /\ pc = "delete" => todo # <<>>
       /\ logged = {calls[i].name : i \in {j \in DeleteCalls : calls[j].err \notin {"nil", "NotFound"}}}

\* a Delete that failed and one that met not-found were each followed by more
C5_Witness ==
  /\ InCleanup
  /\ pc = "done"
  /\ ret = Ok
  /\ \E i, j, k \in DeleteCalls :
       /\ i < j /\ j < k
       /\ calls[i].err = "Forbidden"
       /\ calls[j].err = "NotFound"
       /\ calls[k].err = "nil"
  /\ Cardinality(logged) = 1

\* the reconcile of a cron job or of the configmap has issued a store call
Converging == (InCron \/ InCm) /\ calls # <<>>

\* C6: in reconcileCronJob and ReconcileCurationConfigmap the first store call
\* is the Create and there is no second Create; a Create that succeeds ends the
\* invocation with success and no further call; a Create that fails with
\* anything but already-exists ends it with that error and no further call; a
\* Get or an Update is issued only after the Create failed with already-exists.
C6_CreateOutcomes ==
  (InCron \/ InCm)
    => /\ pc \in {"get", "update"} => calls # <<>>
       /\ Converging =>
            /\ calls[1].verb = "Create"
            /\ \A i \in 2..Len(calls) : calls[i].verb \in {"Get", "Update"}
            /\ calls[1].err = "nil" =>
                 Len(calls) = 1 /\ pc = "done" /\ ret = Ok
            /\ calls[1].err \notin {"nil", "AlreadyExists"} =>
                 /\ Len(calls) = 1 /\ pc = "done"
                 /\ ret.status = "error" /\ ret.cause = calls[1].err
            /\ (Len(calls) >= 2 \/ pc \in {"get", "update"}) =>
                 calls[1].err = "AlreadyExists"

\* a Create of the configmap failed with another error while the object was
\* stored, and nothing followed
C6_Witness ==
  /\ InCm
  /\ pc = "done"
  /\ cm # NoObj
  /\ calls = <<Call("Create", indexManagementConfigmap, "Forbidden")>>
  /\ ret.status = "error"

\* C7: in the update path a Get or an Update that fails with anything but a
\* conflict is the last store call of the invocation, which returns that
\* error; a call follows a Get only when the Get succeeded (its Update) and
\* follows an Update only when the Update failed with a conflict (the next Get).
C7_OnlyConflictRetried ==
  Converging
    => /\ \A i \in 2..Len(calls) :
            calls[i].err \notin {"nil", "Conflict"}
              => /\ i = Len(calls)
                 /\ pc = "done"
                 /\ ret.status = "error" /\ ret.cause = calls[i].err
       /\ \A i \in 2..(Len(calls) - 1) :
            /\ calls[i].verb = "Get"
                 => calls[i].err = "nil" /\ calls[i + 1].verb = "Update"
            /\ calls[i].verb = "Update"
                 => calls[i].err = "Conflict" /\ calls[i + 1].verb = "Get"

\* the other actor deleted the object after the Create met it: the Get fails
\* with not-found, which ends the invocation
C7_Witness ==
  /\ InCron
  /\ pc = "done"
  /\ calls = <<Call("Create", desired.name, "AlreadyExists"),
               Call("Get", desired.name, "NotFound")>>
  /\ ret.status = "error"
  /\ ret.cause = "NotFound"

\* every Update of the invocation failed with a conflict
AllUpdatesConflict ==
  \A i \in 1..Len(calls) : calls[i].verb = "Update" => calls[i].err = "Conflict"

\* C8: reconcileCronJob makes at most Steps attempts: at most Steps Gets and
\* Steps Updates. When every Update fails with a conflict the invocation ends,
\* after exactly Steps Updates, with the conflict as its error. It returns
\* success only after a Create or an Update that succeeded, or after a Get
\* whose object the sameness predicate found unchanged.
C8_BoundedRetry ==
  InCron
    => /\ attempt <= Steps
       /\ NumCalls("Get") <= Steps
       /\ NumCalls("Update") <= Steps
       /\ Len(calls) <= 1 + 2 * Steps
       /\ (pc = "done" /\ calls # <<>> /\ LastCall.verb = "Update" /\ AllUpdatesConflict)
            => /\ NumCalls("Update") = Steps
               /\ ret.status = "error" /\ ret.cause = "Conflict"
       /\ (pc = "done" /\ ret = Ok)
            => /\ calls # <<>>
               /\ LastCall.err = "nil"
               /\ LastCall.verb = "Get"
                    => areCronJobsSame(cron[desired.name], desired).result = "same"

C8_Witness ==
  /\ InCron
  /\ pc = "done"
  /\ NumCalls("Update") = Steps
  /\ NumCalls("Get") = Steps
  /\ AllUpdatesConflict
  /\ ret.status = "error"
  /\ ret.cause = "Conflict"

\* C9 as claimed: an invocation of reconcileCronJob is creating, fetching or
\* updating until it returns, it returns success or an error and ends in no
\* other way, and it returns an error exactly when its last store call failed.
C9_EndsInSuccessOrError ==
  InCron
    => /\ pc \in {"create", "get", "update", "done"}
       /\ pc = "done"
            => /\ ret.status \in {"ok", "error"}
               /\ ret.status = "error" <=> LastCall.err # "nil"

\* the policy of the invocation has neither phase
NoPhase(policy) == ~policy.Hot /\ ~policy.Delete

\* a list without its i-th element
WithoutNth(seq, i) == SubSeq(seq, 1, i - 1) \o SubSeq(seq, i + 1, Len(seq))

\* C10: a policy with neither a Hot nor a Delete phase yields no derived
\* object. ReconcileRolloverCronjob and ReconcileCurationCronjob return
\* success at once with no store call, and in RemoveCronJobsForMappings a
\* mapping with such a policy adds nothing to the expected set: the set is the
\* one of the list without that mapping, and holds neither of the mapping's
\* names unless another mapping of the same name brings it.
C10_NoPhaseNoObject ==
  /\ (op.fn \in CronFns /\ NoPhase(op.policy))
       => pc = "done" /\ calls = <<>> /\ ret = Ok /\ desired = NoObj
  /\ InCleanup
       => \A i \in 1..Len(op.mappings) :
            NoPhase(PolicyOf(PolicyMap, op.mappings[i].policyRef))
              => /\ op.expected = ExpectedNames(WithoutNth(op.mappings, i), PolicyMap)
                 /\ (\A j \in 1..Len(op.mappings) :
                       op.mappings[j].name = op.mappings[i].name
                         => NoPhase(PolicyOf(PolicyMap, op.mappings[j].policyRef)))
                      => /\ RolloverName(cluster.name, op.mappings[i].name) \notin op.expected
                         /\ DeleteName(cluster.name, op.mappings[i].name) \notin op.expected

\* the cron jobs of a mapping whose policy has no phase were deleted as orphans
C10_Witness ==
  /\ InCleanup
  /\ pc = "done"
  /\ op.mappings = <<[name |-> "X", policyRef |-> "empty"]>>
  /\ op.expected = {}
  /\ Call("Delete", "A-rollover-X", "nil") \in {calls[i] : i \in DeleteCalls}
  /\ Call("Delete", "A-delete-X", "nil") \in {calls[i] : i \in DeleteCalls}

\* the mappings of the invocation that carry a mapping name
MappingsNamed(m) ==
  {i \in 1..Len(op.mappings) : op.mappings[i].name = m}

\* the policy map has a policy under the reference, and it has the phase
RefHasHot(ref) == ref \in DOMAIN PolicyMap /\ PolicyMap[ref].Hot
RefHasDelete(ref) == ref \in DOMAIN PolicyMap /\ PolicyMap[ref].Delete

\* C11: the expected set of RemoveCronJobsForMappings holds the rollover name
\* of a mapping name if and only if a mapping of that name refers to a policy
\* of the policy map that has a Hot phase, the delete name if and only if one
\* refers to a policy that has a Delete phase, and no other name; a mapping
\* whose reference is not in the policy map brings no name.
C11_ExpectedNames ==
  InCleanup
    => /\ \A m \in MappingNames :
            /\ RolloverName(cluster.name, m) \in op.expected
                 <=> \E i \in MappingsNamed(m) : RefHasHot(op.mappings[i].policyRef)
            /\ DeleteName(cluster.name, m) \in op.expected
                 <=> \E i \in MappingsNamed(m) : RefHasDelete(op.mappings[i].policyRef)
       /\ op.expected \subseteq
            {RolloverName(cluster.name, op.mappings[i].name) : i \in 1..Len(op.mappings)}
              \cup {DeleteName(cluster.name, op.mappings[i].name) : i \in 1..Len(op.mappings)}
       /\ (\A i \in 1..Len(op.mappings) : op.mappings[i].policyRef \notin DOMAIN PolicyMap)
            => op.expected = {}

\* a mapping with a Hot phase only, and one whose policy is not in the map
C11_Witness ==
  /\ InCleanup
  /\ pc = "done"
  /\ op.mappings = <<[name |-> "X", policyRef |-> "hot"],
                     [name |-> "Y", policyRef |-> "missing"]>>
  /\ op.expected = {"A-rollover-X"}
  /\ "A-rollover-Y" \in op.listed
  /\ cron["A-rollover-Y"] = NoObj

\* the name of the object an invocation of a reconcile entry point is for
ObjectNameOfOp ==
  CASE op.fn = "ReconcileRolloverCronjob" -> RolloverName(cluster.name, op.mapping)
    [] op.fn = "ReconcileCurationCronjob" -> DeleteName(cluster.name, op.mapping)
    [] OTHER -> indexManagementConfigmap

\* C12 as claimed: an error returned by ReconcileRolloverCronjob,
\* ReconcileCurationCronjob or ReconcileCurationConfigmap, from translation,
\* create, get or update, carries a context that names the object, gives the
\* cluster's name under "cluster" and the namespace under "namespace".
C12_ErrorsCarryContext ==
  (op.fn \in CronFns \cup {"ReconcileCurationConfigmap"}
     /\ pc = "done" /\ ret.status = "error")
    => /\ \E kv \in ret.ctx : kv[1] # "cluster" /\ kv[2] = ObjectNameOfOp
       /\ <<"cluster", cluster.name>> \in ret.ctx
       /\ <<"namespace", cluster.namespace>> \in ret.ctx

\* the step in which a store call of ReconcileCurationConfigmap is answered
CmAnswered(verb, err) ==
  /\ InCm
  /\ calls' = Append(calls, Call(verb, indexManagementConfigmap, err))

\* C13: when the configmap already exists, ReconcileCurationConfigmap issues no
\* Update if the stored content map equals the script map, and otherwise
\* submits the fetched object with its content map replaced whole by the
\* script map; an Update that succeeds leaves the name, labels and owner of the
\* stored object as they were and touches no cron job. After a return with
\* success and no write of another actor during the invocation the stored
\* content map is the script map.
C13_ConfigmapContent ==
  [][/\ CmAnswered("Get", "nil")
          => IF cm.data = scriptMap
               THEN pc' = "done" /\ ret' = Ok /\ cm' = cm
               ELSE pc' = "update" /\ current' = [cm EXCEPT !.data = scriptMap]
     /\ CmAnswered("Update", "nil")
          => /\ cm.data # scriptMap
             /\ cm' = [cm EXCEPT !.data = scriptMap, !.ver = rv']
             /\ cron' = cron
     /\ (InCm' /\ pc' = "done" /\ ret' = Ok /\ QuietSinceBegin')
          => cm' # NoObj /\ cm'.data = scriptMap]_vars

\* a configmap that another actor stored without labels and owner, with a key
\* the script map does not have, after the Update of its content
C13_Witness ==
  /\ InCm
  /\ pc = "done"
  /\ ret = Ok
  /\ calls = <<Call("Create", indexManagementConfigmap, "AlreadyExists"),
               Call("Get", indexManagementConfigmap, "nil"),
               Call("Update", indexManagementConfigmap, "nil")>>
  /\ cm.data = scriptMap
  /\ cm.labels = {}
  /\ cm.owner = ""

\* the poll interval of the invocation cannot be turned into a schedule
ScheduleFails == crontabScheduleFor(op.policy.PollInterval).err # "nil"

\* the minimum age of the delete phase cannot be converted to milliseconds
MinAgeFails == calculateMillisForTimeUnit(op.policy.MinAge).err # "nil"

\* the invocation is one whose translation fails
TranslationFails ==
  \/ op.fn = "ReconcileRolloverCronjob" /\ op.policy.Hot /\ ScheduleFails
  \/ op.fn = "ReconcileCurationCronjob" /\ op.policy.Delete
       /\ (ScheduleFails \/ MinAgeFails)

\* C14: an invocation whose poll interval has no schedule (either entry
\* point) or whose delete phase's minimum age has no milliseconds
\* (ReconcileCurationCronjob) returns an error at once: it has issued no store
\* call, it never reaches a Create, and its beginning and its end leave the
\* cron jobs, the configmap and the store's version counter as they were.
C14_TranslationErrorNoEffect ==
  [][TranslationFails'
       => /\ pc' = "done"
          /\ ret'.status = "error"
          /\ ret'.cause \in {"InvalidSchedule", "InvalidDuration"}
          /\ calls' = <<>>
          /\ desired' = NoObj
          /\ cron' = cron /\ cm' = cm /\ rv' = rv]_vars

\* the minimum age is malformed while a cron job of an earlier invocation is
\* stored: the stored cron job is as it was
C14_Witness ==
  /\ op.fn = "ReconcileCurationCronjob"
  /\ op.policy.Delete
  /\ ~ScheduleFails
  /\ MinAgeFails
  /\ pc = "done"
  /\ ret.status = "error"
  /\ calls = <<>>
  /\ prev.created
  /\ cron[prev.desired.name] # NoObj
  /\ cron[prev.desired.name].ver = prev.ver

\* the stored cron job reconcileCronJob compares, and the desired one
Stored == cron[desired.name]

NumContainers(obj) == Len(obj.spec.containers)

\* C15 as claimed: areCronJobsSame(current, desired) reports "different"
\* whenever the stored and the desired cron job have a different number of
\* containers, and a Get that returned such a stored object is followed by an
\* Update.
C15_CountMismatchIsDifferent ==
  (InCron /\ Stored # NoObj /\ NumContainers(Stored) # NumContainers(desired))
    => /\ areCronJobsSame(Stored, desired).result = "different"
       /\ (calls # <<>> /\ LastCall = Call("Get", desired.name, "nil"))
            => pc = "update"

\* the elements of a list, as a set
Elements(seq) == {seq[i] : i \in 1..Len(seq)}

\* the fields the claim lists are equal in two cron jobs with as many
\* containers as each other
OwnedFieldsEqual(lhs, rhs) ==
  /\ lhs.spec.nodeSelector = rhs.spec.nodeSelector
  /\ Elements(lhs.spec.tolerations) = Elements(rhs.spec.tolerations)
  /\ lhs.spec.schedule = rhs.spec.schedule
  /\ \/ lhs.spec.suspend = rhs.spec.suspend
     \/ lhs.spec.suspend = "nil"
     \/ rhs.spec.suspend = "nil"
  /\ \A i \in 1..NumContainers(lhs) :
       /\ lhs.spec.containers[i].name = rhs.spec.containers[i].name
       /\ lhs.spec.containers[i].image = rhs.spec.containers[i].image
       /\ lhs.spec.containers[i].command = rhs.spec.containers[i].command
       /\ lhs.spec.containers[i].args = rhs.spec.containers[i].args
       /\ lhs.spec.containers[i].requests = rhs.spec.containers[i].requests
       /\ Elements(lhs.spec.containers[i].env) = Elements(rhs.spec.containers[i].env)

\* C16: for a stored and a desired cron job with the same number of
\* containers, areCronJobsSame returns "same" if and only if the node
\* selectors are equal, the tolerations are equal as sets, the schedules are
\* equal, the suspend flags are equal or one of them is unset, and every pair
\* of containers agrees in name, image, command, args, resource requests and
\* environment; otherwise it returns "different". No other field counts: two
\* cron jobs that agree in these fields are the same whatever their
\* concurrency policy, labels or version. A Get that returns such a stored
\* object ends the invocation with success when they are the same and leads
\* to an Update when they are not.
C16_SameIffOwnedFieldsEqual ==
  (InCron /\ Stored # NoObj /\ NumContainers(Stored) = NumContainers(desired))
    => /\ areCronJobsSame(Stored, desired).result
            = IF OwnedFieldsEqual(Stored, desired) THEN "same" ELSE "different"
       /\ (calls # <<>> /\ LastCall = Call("Get", desired.name, "nil"))
            => IF OwnedFieldsEqual(Stored, desired)
                 THEN pc = "done" /\ ret = Ok
                 ELSE pc = "update"

\* the stored cron job has another concurrency policy and its tolerations in
\* another order, the desired one sets the suspend flag: they are the same,
\* and no Update is issued
C16_Witness ==
  /\ InCron
  /\ pc = "done"
  /\ ret = Ok
  /\ calls = <<Call("Create", desired.name, "AlreadyExists"),
               Call("Get", desired.name, "nil")>>
  /\ Stored.spec.concurrencyPolicy # desired.spec.concurrencyPolicy
  /\ Stored.spec.tolerations = <<"t2", "t1">>
  /\ desired.spec.tolerations = <<"t1", "t2">>

\* the stored object of the invocation under way
StoredOfOp == IF InCm THEN cm ELSE cron[desired.name]

\* the steps of the update path of the two create-or-update functions
InUpdatePath == (InCron \/ InCm) /\ pc \in {"get", "update"}

\* C17: an Update of reconcileCronJob or ReconcileCurationConfigmap is issued
\* only by an attempt whose Get succeeded: the call before it is that Get, and
\* the object it submits is the one that Get returned, with its version, never
\* the object of an earlier attempt. When another actor has written the stored
\* object since that Get the Update changes nothing in the store, and it
\* fails, with a conflict unless the store call itself failed or the object is
\* gone.
C17_GetBeforeUpdate ==
  [][/\ (InUpdatePath /\ pc' = "update" /\ pc # "update")
          => /\ pc = "get"
             /\ calls' = Append(calls, Call("Get", desired.name, "nil"))
             /\ current' = IF InCm THEN [cm EXCEPT !.data = desired.data]
                           ELSE [cron[desired.name] EXCEPT !.spec = desired.spec]
             /\ current'.ver = StoredOfOp.ver
     /\ (InUpdatePath /\ pc = "update" /\ calls' # calls)
          => /\ LastCall = Call("Get", desired.name, "nil")
             /\ calls'[Len(calls')].verb = "Update"
             /\ Len(calls') = Len(calls) + 1
             /\ (StoredOfOp # NoObj /\ StoredOfOp.ver # current.ver)
                  => /\ calls'[Len(calls')].err \in {"Conflict", "Forbidden"}
                     /\ cron' = cron /\ cm' = cm
             /\ StoredOfOp = NoObj
                  => /\ calls'[Len(calls')].err \in {"NotFound", "Forbidden"}
                     /\ cron' = cron /\ cm' = cm
             /\ calls'[Len(calls')].err = "nil"
                  => StoredOfOp # NoObj /\ StoredOfOp.ver = current.ver]_vars

\* another actor set the suspend flag after the Get of the attempt: the Update
\* failed with a conflict, the flag is still set, and the next attempt begins
C17_Witness ==
  /\ InCron
  /\ pc = "get"
  /\ attempt = 2
  /\ calls = <<Call("Create", desired.name, "AlreadyExists"),
               Call("Get", desired.name, "nil"),
               Call("Update", desired.name, "Conflict")>>
  /\ Stored # NoObj
  /\ Stored.spec.suspend = "true"
  /\ Stored.ver # current.ver

\* C18: the object that the update path of reconcileCronJob submits is the
\* stored cron job as fetched, name, labels, owner and version included, with
\* its specification replaced whole by the desired one; after an Update that
\* succeeded the stored cron job is that object under a new version, so the
\* labels and the owner of the desired object are not written onto a cron job
\* that already existed.
C18_OnlySpecOverwritten ==
  /\ (InCron /\ pc = "update")
       => /\ current.name = desired.name
          /\ current.spec = desired.spec
          /\ (Stored # NoObj /\ Stored.ver = current.ver)
               => /\ current = [Stored EXCEPT !.spec = desired.spec]
                  /\ current.labels = Stored.labels
                  /\ current.owner = Stored.owner
  /\ (InCron /\ pc = "done" /\ calls # <<>>
        /\ LastCall = Call("Update", desired.name, "nil"))
       => /\ Stored # NoObj
          /\ Stored = [current EXCEPT !.ver = rv]
          /\ Stored.spec = desired.spec
          /\ Stored.labels = current.labels
          /\ Stored.owner = current.owner

\* a cron job that another actor stored without labels and owner has the
\* desired specification after the Update, and still no labels and no owner
C18_Witness ==
  /\ InCron
  /\ pc = "done"
  /\ ret = Ok
  /\ LastCall = Call("Update", desired.name, "nil")
  /\ desired.labels = imLabels
  /\ desired.owner = cluster.name
  /\ Stored.labels = {}
  /\ Stored.owner = ""
  /\ Stored.spec = desired.spec

\* no store call of either reconciler failed for a reason of the store's own,
\* and no other actor has written
Undisturbed ==
  /\ nOther = 0
  /\ nTouch = 0
  /\ \A i \in 1..Len(calls) : calls[i].err # "Forbidden"
  /\ \A i \in 1..Len(peer.calls) : peer.calls[i].err # "Forbidden"

\* the call lists of the reconciler whose Create succeeded and of the other
WonAndLost(won, lost) ==
  /\ won = <<Call("Create", desired.name, "nil")>>
  /\ lost = <<Call("Create", desired.name, "AlreadyExists"),
              Call("Get", desired.name, "nil")>>

\* C19: two reconcilers run reconcileCronJob with the same desired cron job,
\* which is not stored at first, their store calls interleaved in any way and
\* none failing for a reason of the store's own. Neither issues an Update nor
\* aborts; when both have returned, one has made the one Create that
\* succeeded, the other met already-exists, fetched the object and found it
\* the same, both returned success, and the stored specification is the
\* desired one.
C19_TwoReconcilers ==
  (InCron /\ peer.pc # "idle" /\ Undisturbed)
    => /\ pc \in {"create", "get", "done"}
       /\ peer.pc \in {"create", "get", "done"}
       /\ NumCalls("Update") = 0
       /\ \A i \in 1..Len(peer.calls) : peer.calls[i].verb # "Update"
       /\ (pc = "done" /\ peer.pc = "done")
            => /\ ret = Ok
               /\ peer.ret = Ok
               /\ WonAndLost(calls, peer.calls) \/ WonAndLost(peer.calls, calls)
               /\ Stored # NoObj
               /\ Stored.spec = desired.spec

\* the second reconciler created the cron job between the start and the
\* Create of the first
C19_Witness ==
  /\ InCron
  /\ Undisturbed
  /\ pc = "done"
  /\ peer.pc = "done"
  /\ WonAndLost(peer.calls, calls)
  /\ ret = Ok
  /\ peer.ret = Ok

\* the pass has run to its end and no invocation of it met a store error
PassDone ==
  /\ pass.phase = "end"
  /\ pc = "done"
  /\ ret = Ok
  /\ logged = {}

\* the cron jobs of the store that carry the index-management labels
Labelled == ListNames(cron, imLabels)

\* C20 as claimed: after a pass without store error, translation error or
\* other actor, on any store, the cron jobs that carry the index-management
\* labels are exactly the expected names.
C20_PassConverges ==
  PassDone => Labelled = op.expected

\* the names under which the pass found a cron job without the labels
FoundUnlabelled ==
  {n \in CronNames : pass.found[n] # NoObj /\ ~(imLabels \subseteq pass.found[n].labels)}

\* C20 as amended: after such a pass every expected name is stored with the
\* schedule of the pass, the cleanup has deleted no expected name and every
\* labelled cron job that is not expected, and the labelled cron jobs are the
\* expected names except those under which the pass found a cron job without
\* the labels: such a cron job gets the desired specification but not the
\* labels. A cron job without the labels under a name that is not expected is
\* left as it was found.
C20_PassConvergesOnLabelled ==
  PassDone
    => /\ Labelled = op.expected \ FoundUnlabelled
       /\ \A n \in op.expected :
            /\ cron[n] # NoObj
            /\ cron[n].spec.schedule = crontabScheduleFor(pass.poll).schedule
            /\ n \in FoundUnlabelled <=> cron[n].labels = {}
       /\ \A i \in DeleteCalls : calls[i].name \notin op.expected
       /\ \A n \in FoundUnlabelled \ op.expected : cron[n] = pass.found[n]
       /\ op.expected = ExpectedNames(pass.mappings, PolicyMap)

\* a pass that created one cron job, updated the schedule of another, and
\* deleted an orphan
C20_Witness ==
  /\ PassDone
  /\ pass.poll = "15m"
  /\ pass.mappings = <<[name |-> "X", policyRef |-> "both"]>>
  /\ pass.found["A-rollover-X"] = NoObj
  /\ pass.found["A-delete-X"] # NoObj
  /\ pass.found["A-rollover-Y"] # NoObj
  /\ FoundUnlabelled = {}
  /\ Labelled = {"A-rollover-X", "A-delete-X"}
  /\ cron["A-delete-X"].spec.schedule = "*/15 * * * *"
  /\ calls = <<Call("List", "", "nil"), Call("Delete", "A-rollover-Y", "nil")>>

====
